---- MODULE Spec2Model ----
(***************************************************************************)
(* csvargs: for every record of every CSV file, bind the record's fields   *)
(* to a context named `row`, render a template against it and run the      *)
(* rendered text as a shell command.  Model of src/src/main.rs.            *)
(***************************************************************************)
EXTENDS Integers, Sequences, FiniteSets, TLC

\* ------------------------------------------------------------------ bounds
\* Most files named on the command line (Args.files).
MaxSources == 2
\* Most records (header records included) the files of one run hold together.
MaxRecords == 3
\* Most fields of one record in a run.
MaxFields == 2
\* Most header fields / row fields given to create_named_context alone.
MaxCtxLen == 3
\* Most fields of a record given to create_indexed_context alone; above 10 so
\* that the keys reach two decimal digits.
MaxIdxLen == 11

\* Field texts of the CSV data (header names and values alike).
Vals == {"a", "b"}
\* Paths that may be named on the command line, in the order they are given.
AllPaths == <<"f1.csv", "f2.csv", "f3.csv", "f4.csv">>

\* Sequences over S of length lo..hi.
SeqsOf(S, lo, hi) == UNION {[1..n -> S] : n \in lo..hi}

\* ------------------------------------------------- Option<StringRecord>
None == [some |-> FALSE, rec |-> <<>>]
Some(r) == [some |-> TRUE, rec |-> r]

\* ------------------------------------------------------ usize::to_string
Digit(d) ==
  CASE d = 0 -> "0" [] d = 1 -> "1" [] d = 2 -> "2" [] d = 3 -> "3"
    [] d = 4 -> "4" [] d = 5 -> "5" [] d = 6 -> "6" [] d = 7 -> "7"
    [] d = 8 -> "8" [] d = 9 -> "9"

RECURSIVE to_string(_)
to_string(n) == IF n < 10 THEN Digit(n) ELSE to_string(n \div 10) \o Digit(n % 10)

\* ------------------------------------------------------- HashMap building
EmptyMap == <<>>

\* HashMap::insert: the key is added, or its value replaced.
Insert(m, k, v) == [x \in (DOMAIN m) \cup {k} |-> IF x = k THEN v ELSE m[x]]

\* StringRecord::get(i).unwrap_or(""), i counted from zero.
GetOrEmpty(record, i) == IF i < Len(record) THEN record[i + 1] ELSE ""

\* collect() of the (key, value) pairs of the headers at positions i.., in
\* iteration order, into the map m.
RECURSIVE CollectNamed(_, _, _, _)
CollectNamed(hdr, record, i, m) ==
  IF i >= Len(hdr) THEN m
  ELSE CollectNamed(hdr, record, i + 1, Insert(m, hdr[i + 1], GetOrEmpty(record, i)))

\* create_named_context that pairs header i with field i + 1.
RECURSIVE CollectNamedShifted(_, _, _, _)
CollectNamedShifted(hdr, record, i, m) ==
  IF i >= Len(hdr) THEN m
  ELSE CollectNamedShifted(hdr, record, i + 1,
                           Insert(m, hdr[i + 1], GetOrEmpty(record, i + 1)))
create_named_context_shifted(hdr, record) == CollectNamedShifted(hdr, record, 0, EmptyMap)

\* create_named_context that keeps the first value of a repeated header.
RECURSIVE CollectNamedFirst(_, _, _, _)
CollectNamedFirst(hdr, record, i, m) ==
  IF i >= Len(hdr) THEN m
  ELSE CollectNamedFirst(hdr, record, i + 1,
                         IF hdr[i + 1] \in DOMAIN m THEN m
                         ELSE Insert(m, hdr[i + 1], GetOrEmpty(record, i)))
create_named_context_first_wins(hdr, record) == CollectNamedFirst(hdr, record, 0, EmptyMap)

create_named_context(hdr, record) == CollectNamed(hdr, record, 0, EmptyMap)

RECURSIVE CollectIndexed(_, _, _)
CollectIndexed(record, i, m) ==
  IF i >= Len(record) THEN m
  ELSE CollectIndexed(record, i + 1, Insert(m, to_string(i), record[i + 1]))

\* create_indexed_context that numbers the fields from one.
RECURSIVE CollectIndexedFromOne(_, _, _)
CollectIndexedFromOne(record, i, m) ==
  IF i >= Len(record) THEN m
  ELSE CollectIndexedFromOne(record, i + 1, Insert(m, to_string(i + 1), record[i + 1]))
create_indexed_context_from_one(record) == CollectIndexedFromOne(record, 0, EmptyMap)

create_indexed_context(record) == CollectIndexed(record, 0, EmptyMap)

\* --------------------------------------------------------------- template
\* The template text is a sequence of lexical tokens: the delimiters "{{" and
\* "}}", and chunks of text.  ExprPath is the expression a chunk denotes when
\* it stands between the delimiters: a variable followed by attribute or
\* subscript lookups; <<>> when the chunk is no expression.
ExprPath(tok) ==
  CASE tok = "row.a" -> <<"row", "a">>
    [] tok = "row.b" -> <<"row", "b">>
    [] tok = "row['0']" -> <<"row", "0">>
    [] tok = "row['1']" -> <<"row", "1">>
    [] tok = "row.b.x" -> <<"row", "b", "x">>
    [] tok = "echo " -> <<"echo">>
    [] OTHER -> <<>>

TextPiece(tok) == [kind |-> "text", path |-> <<tok>>]
ExprPiece(tok) == [kind |-> "expr", path |-> ExprPath(tok)]
SyntaxError == [ok |-> FALSE, pieces |-> <<>>]

\* Environment::template_from_str: outside the delimiters every chunk is raw
\* text; "{{" must be followed by one expression and "}}".
RECURSIVE ParseFrom(_, _, _)
ParseFrom(toks, i, acc) ==
  IF i > Len(toks) THEN [ok |-> TRUE, pieces |-> acc]
  ELSE IF toks[i] = "{{"
    THEN IF i + 2 <= Len(toks) /\ ExprPath(toks[i + 1]) # <<>> /\ toks[i + 2] = "}}"
           THEN ParseFrom(toks, i + 3, Append(acc, ExprPiece(toks[i + 1])))
           ELSE SyntaxError
    ELSE ParseFrom(toks, i + 1, Append(acc, TextPiece(toks[i])))

template_from_str(toks) == ParseFrom(toks, 1, <<>>)

\* Values of the template engine.
Undefined == [t |-> "undefined", s |-> ""]
Str(s) == [t |-> "string", s |-> s]
MapValue == [t |-> "map", s |-> ""]
EvalError == [t |-> "error", s |-> ""]

\* Variable lookup in context! { row => row_data }.
Lookup(name) == IF name = "row" THEN MapValue ELSE Undefined

\* Attribute / subscript lookup under the engine's default (lenient) undefined
\* behaviour: a key the map lacks, or an attribute of a string, is undefined;
\* an attribute of an undefined value is an error.
GetAttr(v, name, row_data) ==
  CASE v.t = "map" -> IF name \in DOMAIN row_data THEN Str(row_data[name]) ELSE Undefined
    [] v.t = "string" -> Undefined
    [] v.t = "undefined" -> EvalError
    [] v.t = "error" -> EvalError

RECURSIVE EvalFrom(_, _, _, _)
EvalFrom(path, i, v, row_data) ==
  IF i > Len(path) THEN v
  ELSE EvalFrom(path, i + 1, GetAttr(v, path[i], row_data), row_data)

Eval(path, row_data) == EvalFrom(path, 2, Lookup(path[1]), row_data)

\* What {{ expr }} writes: a string as it is, undefined as nothing.  (No
\* expression of ExprPath evaluates to the map itself.)
Emit(v) == IF v.t = "string" THEN v.s ELSE ""

RenderError == [ok |-> FALSE, text |-> ""]

\* Template::render(context! { row => row_data }).
RECURSIVE RenderFrom(_, _, _, _)
RenderFrom(pieces, i, acc, row_data) ==
  IF i > Len(pieces) THEN [ok |-> TRUE, text |-> acc]
  ELSE IF pieces[i].kind = "text"
    THEN RenderFrom(pieces, i + 1, acc \o pieces[i].path[1], row_data)
    ELSE LET v == Eval(pieces[i].path, row_data)
         IN IF v.t = "error" THEN RenderError
            ELSE RenderFrom(pieces, i + 1, acc \o Emit(v), row_data)

render(pieces, row_data) == RenderFrom(pieces, 1, "", row_data)

\* ------------------------------------------------------------ environment
\* Template texts given on the command line: attribute access, subscript
\* access, a lookup below a field, and one with an unclosed "{{".
Templates ==
  { <<"echo ", "{{", "row.a", "}}">>,
    <<"echo ", "{{", "row['0']", "}}">>,
    <<"echo ", "{{", "row.b.x", "}}">>,
    <<"echo ", "{{", "row.a">> }

\* Records the CSV reader may yield.
Records == SeqsOf(Vals, 1, MaxFields)

\* Captured standard output of a command, as characters.
Stdouts == { <<>>, <<" ", "\n">>, <<" ", "x", "\n">> }
\* Captured standard error of a command.
Stderrs == { "", "oops" }
\* Exit codes of a command; 0 is success.
ExitCodes == { 0, 1 }

\* std::process::Output: what .output() captures of a command that ran.
Outputs ==
  { [code |-> c, stdout |-> so, stderr |-> se] :
      c \in ExitCodes, so \in Stdouts, se \in Stderrs }
NoOutput == [code |-> 0, stdout |-> <<>>, stderr |-> ""]

\* ExitStatus::success
success(o) == o.code = 0

IsSpace(c) == c \in {" ", "\n"}

\* str::trim
RECURSIVE TrimStart(_)
TrimStart(cs) == IF cs # <<>> /\ IsSpace(Head(cs)) THEN TrimStart(Tail(cs)) ELSE cs
RECURSIVE TrimEnd(_)
TrimEnd(cs) ==
  IF cs # <<>> /\ IsSpace(cs[Len(cs)]) THEN TrimEnd(SubSeq(cs, 1, Len(cs) - 1)) ELSE cs
trim(cs) == TrimEnd(TrimStart(cs))

\* The text of a character sequence.
RECURSIVE Text(_)
Text(cs) == IF cs = <<>> THEN "" ELSE Head(cs) \o Text(Tail(cs))

\* ------------------------------------------------------------------ state
VARIABLES
  template,          \* Args.template
  no_header,         \* Args.no_header
  files,             \* Args.files
  pc,                \* where the run is
  processor,         \* the CsvProcessor, once constructed
  file_idx,          \* position in `for file_path in &args.files`, from 1
  first_field_count, \* the reader's expected record length; 0 when not yet set
  at_eof,            \* the reader has reached the end of its input
  headers,           \* Option<StringRecord> of process_reader
  row_index,         \* the enumerate() counter of process_reader
  record,            \* the record of the current iteration
  row_data,          \* the context of the current iteration
  rendered,          \* the rendered command of the current iteration
  output,            \* the captured output of the command that just ran
  out,               \* standard output, one element per println!
  err,               \* the error's context chain, outermost first
  result,            \* "running", or what main returned: "Ok" / "Err"
  status,            \* per file: "pending", "open", "done", "failed"
  nread,             \* per file: records the reader has yielded, header included
  spawned,           \* per file: commands handed to the shell
  completed          \* per file: commands that exited successfully

vars == <<template, no_header, files, pc, processor, file_idx, first_field_count,
          at_eof, headers, row_index, record, row_data, rendered, output, out, err,
          result, status, nread, spawned, completed>>

args == <<template, no_header, files>>
reader == <<first_field_count, at_eof>>
iteration == <<headers, row_index, record, row_data, rendered, output>>
history == <<status, nread, spawned, completed>>

NoProcessor == [built |-> FALSE, template_str |-> <<>>, has_header |-> FALSE]

Blank ==
  /\ processor = NoProcessor
  /\ file_idx = 0
  /\ first_field_count = 0
  /\ at_eof = FALSE
  /\ row_index = 0
  /\ rendered = ""
  /\ output = NoOutput
  /\ out = <<>>
  /\ err = <<>>
  /\ result = "running"

Init ==
  /\ template \in Templates
  /\ no_header \in BOOLEAN
  /\ files \in {SubSeq(AllPaths, 1, n) : n \in 0..MaxSources}
  /\ pc = "main"
  /\ Blank
  /\ headers = None
  /\ record = <<>>
  /\ row_data = EmptyMap
  /\ status = [s \in 1..Len(files) |-> "pending"]
  /\ nread = [s \in 1..Len(files) |-> 0]
  /\ spawned = [s \in 1..Len(files) |-> 0]
  /\ completed = [s \in 1..Len(files) |-> 0]

\* Records read so far in the run, over the files s.. .
RECURSIVE ReadFrom(_, _)
ReadFrom(counts, s) == IF s > Len(counts) THEN 0 ELSE counts[s] + ReadFrom(counts, s + 1)
\* The files of the run hold a record that was not read yet.
MoreInput == ReadFrom(nread, 1) < MaxRecords

\* `?` in main: the error ends the run.
Bail(chain) ==
  /\ err' = chain
  /\ result' = "Err"
  /\ pc' = "exit"

\* main that passes the error of process_file on as it is.
FileError_unnamed(chain) ==
  /\ Bail(chain)
  /\ status' = [status EXCEPT ![file_idx] = "failed"]

\* `?` below process_file: main adds the file to the chain (line 98).
FileError(chain) ==
  /\ Bail(<<"Failed to process file: " \o files[file_idx]>> \o chain)
  /\ status' = [status EXCEPT ![file_idx] = "failed"]

\* format!("... row {}", row_index) of lines 67, 77 and 80, numbering a row
\* from one.
AtRow_from_one(what, index) == what \o " row " \o to_string(index + 1)

\* format!("... row {}", row_index) of lines 67, 77 and 80.
AtRow(what, index) == what \o " row " \o to_string(index)

\* ---------------------------------------------------------------- actions
\* main without the check of line 90.
main_without_files_check ==
  /\ pc = "main"
  /\ pc' = "new"
  /\ UNCHANGED <<args, processor, file_idx, reader, iteration, out, err, result, history>>

\* main, lines 88-92.
main_check_files ==
  /\ pc = "main"
  /\ IF files = <<>>
       THEN Bail(<<"At least one CSV file must be provided">>)
       ELSE pc' = "new" /\ UNCHANGED <<err, result>>
  /\ UNCHANGED <<args, processor, file_idx, reader, iteration, out, history>>

\* CsvProcessor::new that stores the template text without compiling it.
new_without_validation ==
  /\ pc = "new"
  /\ processor' = [built |-> TRUE, template_str |-> template, has_header |-> ~no_header]
  /\ file_idx' = 1
  /\ pc' = "files"
  /\ UNCHANGED <<args, reader, iteration, out, err, result, history>>

\* CsvProcessor::new, called at line 94.
new ==
  /\ pc = "new"
  /\ IF template_from_str(template).ok
       THEN /\ processor' = [built |-> TRUE, template_str |-> template,
                             has_header |-> ~no_header]
            /\ file_idx' = 1
            /\ pc' = "files"
            /\ UNCHANGED <<err, result>>
       ELSE /\ Bail(<<"Failed to parse template", "syntax error">>)
            /\ UNCHANGED <<processor, file_idx>>
  /\ UNCHANGED <<args, reader, iteration, out, history>>

\* main, lines 96-101: the loop over the files and the final Ok(()).
main_next_file ==
  /\ pc = "files"
  /\ IF file_idx > Len(files)
       THEN result' = "Ok" /\ pc' = "exit"
       ELSE pc' = "open" /\ UNCHANGED result
  /\ UNCHANGED <<args, processor, file_idx, reader, iteration, out, err, history>>

\* process_file under a main that reports a file it cannot open and goes on
\* with the next one.
process_file_skip_missing ==
  /\ pc = "open"
  /\ \E opens \in BOOLEAN :
       IF opens
         THEN /\ status' = [status EXCEPT ![file_idx] = "open"]
              /\ first_field_count' = 0
              /\ at_eof' = FALSE
              /\ pc' = "headers"
              /\ UNCHANGED <<err, result, file_idx>>
         ELSE /\ status' = [status EXCEPT ![file_idx] = "failed"]
              /\ err' = <<"Failed to process file: " \o files[file_idx]>>
              /\ file_idx' = file_idx + 1
              /\ pc' = "files"
              /\ UNCHANGED <<reader, result>>
  /\ UNCHANGED <<args, processor, iteration, out, nread, spawned, completed>>

\* process_file, lines 46-52: File::open, then the reader of lines 55-57.
process_file ==
  /\ pc = "open"
  /\ \E opens \in BOOLEAN :
       IF opens
         THEN /\ status' = [status EXCEPT ![file_idx] = "open"]
              /\ first_field_count' = 0
              /\ at_eof' = FALSE
              /\ pc' = "headers"
              /\ UNCHANGED <<err, result>>
         ELSE /\ FileError(<<"Failed to open file: " \o files[file_idx],
                             "No such file or directory">>)
              /\ UNCHANGED reader
  /\ UNCHANGED <<args, processor, file_idx, iteration, out, nread, spawned, completed>>

\* The reader built at lines 55-57 keeps the length of the first record it
\* yields and, not being flexible, refuses a record of another length.
AddRecord(ffc, r) ==
  [ok |-> ffc = 0 \/ Len(r) = ffc, ffc |-> IF ffc = 0 THEN Len(r) ELSE ffc]

\* process_reader that never reads a header record.
read_headers_never ==
  /\ pc = "headers"
  /\ headers' = None
  /\ row_index' = 0
  /\ pc' = "records"
  /\ UNCHANGED <<args, processor, file_idx, reader, record, row_data, rendered, output,
                 out, err, result, history>>

\* process_reader, lines 59-63.
read_headers ==
  /\ pc = "headers"
  /\ IF processor.has_header
       THEN \/ \E h \in Records :
                 /\ MoreInput
                 /\ headers' = Some(h)
                 /\ first_field_count' = AddRecord(first_field_count, h).ffc
                 /\ nread' = [nread EXCEPT ![file_idx] = @ + 1]
                 /\ row_index' = 0
                 /\ pc' = "records"
                 /\ UNCHANGED <<at_eof, err, result, status>>
            \/ \* an empty input: the header is the empty record
               /\ headers' = Some(<<>>)
               /\ at_eof' = TRUE
               /\ row_index' = 0
               /\ pc' = "records"
               /\ UNCHANGED <<first_field_count, nread, err, result, status>>
            \/ \* the header cannot be read as text
               /\ FileError(<<"CSV parse error: invalid UTF-8">>)
               /\ UNCHANGED <<reader, headers, row_index, nread>>
       ELSE /\ headers' = None
            /\ row_index' = 0
            /\ pc' = "records"
            /\ UNCHANGED <<reader, nread, err, result, status>>
  /\ UNCHANGED <<args, processor, file_idx, record, row_data, rendered, output, out,
                 spawned, completed>>

\* The loop of line 65 over the readable records only: a record that cannot
\* be read ends the iteration as the end of the input does.
next_record_skip_errors ==
  /\ pc = "records"
  /\ \/ \E r \in Records :
          /\ ~at_eof
          /\ MoreInput
          /\ nread' = [nread EXCEPT ![file_idx] = @ + 1]
          /\ IF AddRecord(first_field_count, r).ok
               THEN /\ record' = r
                    /\ first_field_count' = AddRecord(first_field_count, r).ffc
                    /\ pc' = "context"
                    /\ UNCHANGED <<status, file_idx, at_eof, headers, row_index>>
               ELSE /\ first_field_count' = 0
                    /\ at_eof' = FALSE
                    /\ headers' = None
                    /\ row_index' = 0
                    /\ status' = [status EXCEPT ![file_idx] = "done"]
                    /\ file_idx' = file_idx + 1
                    /\ pc' = "files"
                    /\ UNCHANGED record
     \/ /\ first_field_count' = 0
        /\ at_eof' = FALSE
        /\ headers' = None
        /\ row_index' = 0
        /\ status' = [status EXCEPT ![file_idx] = "done"]
        /\ file_idx' = file_idx + 1
        /\ pc' = "files"
        /\ UNCHANGED <<record, nread>>
  /\ UNCHANGED <<args, processor, row_data, rendered, output, out, err, result,
                 spawned, completed>>

\* process_reader that takes an input without a record for an error.
next_record_empty_fails ==
  /\ pc = "records"
  /\ \/ \E r \in Records :
          /\ ~at_eof
          /\ MoreInput
          /\ nread' = [nread EXCEPT ![file_idx] = @ + 1]
          /\ IF AddRecord(first_field_count, r).ok
               THEN /\ record' = r
                    /\ first_field_count' = AddRecord(first_field_count, r).ffc
                    /\ pc' = "context"
                    /\ UNCHANGED <<err, result, status, file_idx, at_eof, headers,
                                   row_index>>
               ELSE /\ FileError(<<AtRow("Failed to read", row_index),
                                   "CSV error: found record with unequal lengths">>)
                    /\ UNCHANGED <<record, reader, file_idx, headers, row_index>>
     \/ /\ ~at_eof
        /\ FileError(<<AtRow("Failed to read", row_index),
                       "CSV parse error: invalid UTF-8">>)
        /\ UNCHANGED <<record, reader, file_idx, nread, headers, row_index>>
     \/ IF nread[file_idx] = 0
          THEN /\ FileError(<<"No records">>)
               /\ UNCHANGED <<record, reader, file_idx, nread, headers, row_index>>
          ELSE /\ first_field_count' = 0
               /\ at_eof' = FALSE
               /\ headers' = None
               /\ row_index' = 0
               /\ status' = [status EXCEPT ![file_idx] = "done"]
               /\ file_idx' = file_idx + 1
               /\ pc' = "files"
               /\ UNCHANGED <<record, nread, err, result>>
  /\ UNCHANGED <<args, processor, row_data, rendered, output, out, spawned, completed>>

\* process_reader, lines 65-67 and 83: the next item of records().
next_record ==
  /\ pc = "records"
  /\ \/ \E r \in Records :
          /\ ~at_eof
          /\ MoreInput
          /\ nread' = [nread EXCEPT ![file_idx] = @ + 1]
          /\ IF AddRecord(first_field_count, r).ok
               THEN /\ record' = r
                    /\ first_field_count' = AddRecord(first_field_count, r).ffc
                    /\ pc' = "context"
                    /\ UNCHANGED <<err, result, status, file_idx, at_eof, headers,
                                   row_index>>
               ELSE /\ FileError(<<AtRow("Failed to read", row_index),
                                   "CSV error: found record with unequal lengths">>)
                    /\ UNCHANGED <<record, reader, file_idx, headers, row_index>>
     \/ \* a record that cannot be read as text
        /\ ~at_eof
        /\ FileError(<<AtRow("Failed to read", row_index),
                       "CSV parse error: invalid UTF-8">>)
        /\ UNCHANGED <<record, reader, file_idx, nread, headers, row_index>>
     \/ \* the end of the input: Ok(()) of line 83 drops the reader and the
        \* headers, and main's loop goes on
        /\ first_field_count' = 0
        /\ at_eof' = FALSE
        /\ headers' = None
        /\ row_index' = 0
        /\ status' = [status EXCEPT ![file_idx] = "done"]
        /\ file_idx' = file_idx + 1
        /\ pc' = "files"
        /\ UNCHANGED <<record, nread, err, result>>
  /\ UNCHANGED <<args, processor, row_data, rendered, output, out, spawned, completed>>

\* process_reader, lines 69-72.
build_context ==
  /\ pc = "context"
  /\ row_data' = IF headers.some THEN create_named_context(headers.rec, record)
                                 ELSE create_indexed_context(record)
  /\ pc' = "render"
  /\ UNCHANGED <<args, processor, file_idx, reader, headers, row_index, record,
                 rendered, output, out, err, result, history>>

\* process_reader that keeps the rendered text as the template of the
\* processor.
render_template_in_place ==
  /\ pc = "render"
  /\ LET parsed == template_from_str(processor.template_str)
         text == render(parsed.pieces, row_data)
     IN IF ~parsed.ok
          THEN FileError(<<"Failed to parse template", "syntax error">>)
               /\ UNCHANGED <<rendered, processor>>
          ELSE IF ~text.ok
            THEN FileError(<<AtRow("Failed to render template for", row_index),
                             "undefined value">>)
                 /\ UNCHANGED <<rendered, processor>>
            ELSE /\ rendered' = text.text
                 /\ processor' = [processor EXCEPT !.template_str = <<text.text>>]
                 /\ pc' = "trace"
                 /\ UNCHANGED <<err, result, status>>
  /\ UNCHANGED <<args, file_idx, reader, headers, row_index, record,
                 row_data, output, out, nread, spawned, completed>>

\* process_reader, lines 74-77.
render_template ==
  /\ pc = "render"
  /\ LET parsed == template_from_str(processor.template_str)
         text == render(parsed.pieces, row_data)
     IN IF ~parsed.ok
          THEN FileError(<<"Failed to parse template", "syntax error">>)
               /\ UNCHANGED rendered
          ELSE IF ~text.ok
            THEN FileError(<<AtRow("Failed to render template for", row_index),
                             "undefined value">>)
                 /\ UNCHANGED rendered
            ELSE /\ rendered' = text.text
                 /\ pc' = "trace"
                 /\ UNCHANGED <<err, result, status>>
  /\ UNCHANGED <<args, processor, file_idx, reader, headers, row_index, record,
                 row_data, output, out, nread, spawned, completed>>

\* println!: the text and a line end.
println(text) == text \o "\n"

\* The trace line that numbers the rows from one.
TraceLine_from_one(command, index) ==
  [by |-> "trace",
   text |-> println("Executing for row " \o to_string(index + 1) \o ": " \o command)]

\* Line 122.
TraceLine(command, index) ==
  [by |-> "trace",
   text |-> println("Executing for row " \o to_string(index) \o ": " \o command)]

\* Line 142.
OutputLine(stdout) == [by |-> "command", text |-> println(Text(stdout))]

\* ExitStatus as {} prints it.
StatusText(code) == "exit status: " \o to_string(code)

\* execute_command that writes no trace line.
execute_trace_skipped ==
  /\ pc = "trace"
  /\ pc' = "spawn"
  /\ UNCHANGED <<args, processor, file_idx, reader, iteration, out, err, result, history>>

\* execute_command, line 122.
execute_trace ==
  /\ pc = "trace"
  /\ out' = Append(out, TraceLine(rendered, row_index))
  /\ pc' = "spawn"
  /\ UNCHANGED <<args, processor, file_idx, reader, iteration, err, result, history>>

\* execute_command, lines 124-133: sh -c command runs to its end and its
\* output is captured, or sh cannot be started.
execute_spawn ==
  /\ pc = "spawn"
  /\ \/ /\ FileError(<<AtRow("Failed to execute command for", row_index),
                       "Failed to execute command", "No such file or directory">>)
        /\ UNCHANGED <<output, spawned>>
     \/ \E o \in Outputs :
          /\ output' = o
          /\ spawned' = [spawned EXCEPT ![file_idx] = @ + 1]
          /\ pc' = "check"
          /\ UNCHANGED <<err, result, status>>
  /\ UNCHANGED <<args, processor, file_idx, reader, headers, row_index, record,
                 row_data, rendered, out, nread, completed>>

\* The end of an iteration of the loop of lines 65-81: its record, context,
\* command and captured output are dropped.
EndIteration ==
  /\ row_index' = row_index + 1
  /\ record' = <<>>
  /\ row_data' = EmptyMap
  /\ rendered' = ""
  /\ output' = NoOutput
  /\ pc' = "records"

\* execute_command whose caller goes on with the next record after a command
\* that exited with a failure status.
execute_check_continue ==
  /\ pc = "check"
  /\ IF ~success(output)
       THEN UNCHANGED <<out, completed>>
       ELSE /\ completed' = [completed EXCEPT ![file_idx] = @ + 1]
            /\ out' = IF trim(output.stdout) # <<>>
                        THEN Append(out, OutputLine(output.stdout)) ELSE out
  /\ EndIteration
  /\ UNCHANGED <<args, processor, file_idx, reader, headers, nread, spawned, err,
                 result, status>>

\* execute_command that prints the captured output before it looks at the
\* exit status.
execute_check_prints_first ==
  /\ pc = "check"
  /\ out' = IF trim(output.stdout) # <<>>
              THEN Append(out, OutputLine(output.stdout)) ELSE out
  /\ IF ~success(output)
       THEN /\ FileError(<<AtRow("Failed to execute command for", row_index),
                           "Command failed with status " \o StatusText(output.code)
                             \o ": " \o output.stderr>>)
            /\ UNCHANGED <<row_index, record, row_data, rendered, output, completed>>
       ELSE /\ completed' = [completed EXCEPT ![file_idx] = @ + 1]
            /\ EndIteration
            /\ UNCHANGED <<err, result, status>>
  /\ UNCHANGED <<args, processor, file_idx, reader, headers, nread, spawned>>

\* execute_command, lines 135-145, and lines 79-81 of process_reader.
execute_check ==
  /\ pc = "check"
  /\ IF ~success(output)
       THEN /\ FileError(<<AtRow("Failed to execute command for", row_index),
                           "Command failed with status " \o StatusText(output.code)
                             \o ": " \o output.stderr>>)
            /\ UNCHANGED <<out, row_index, record, row_data, rendered, output, completed>>
       ELSE /\ completed' = [completed EXCEPT ![file_idx] = @ + 1]
            /\ out' = IF trim(output.stdout) # <<>>
                        THEN Append(out, OutputLine(output.stdout)) ELSE out
            /\ EndIteration
            /\ UNCHANGED <<err, result, status>>
  /\ UNCHANGED <<args, processor, file_idx, reader, headers, nread, spawned>>

Next ==
  \/ main_check_files
  \/ new
  \/ main_next_file
  \/ process_file
  \/ read_headers
  \/ next_record
  \/ build_context
  \/ render_template
  \/ execute_trace
  \/ execute_spawn
  \/ execute_check

Spec == Init /\ [][Next]_vars

\* ------------------------------------------------ the context builders alone
\* create_named_context and create_indexed_context called on their own, as the
\* unit tests call them, on every header and record within the bounds.
CtxInit ==
  /\ template = <<>>
  /\ no_header = FALSE
  /\ files = <<>>
  /\ Blank
  /\ row_data = EmptyMap
  /\ status = <<>>
  /\ nread = <<>>
  /\ spawned = <<>>
  /\ completed = <<>>

InitNamed ==
  /\ CtxInit
  /\ pc = "named"
  /\ headers \in {Some(h) : h \in SeqsOf(Vals, 0, MaxCtxLen)}
  /\ record \in SeqsOf(Vals, 0, MaxCtxLen)

named_context ==
  /\ pc = "named"
  /\ row_data' = create_named_context(headers.rec, record)
  /\ pc' = "built"
  /\ UNCHANGED <<args, processor, file_idx, reader, headers, row_index, record,
                 rendered, output, out, err, result, history>>

SpecNamed == InitNamed /\ [][named_context]_vars

InitIndexed ==
  /\ CtxInit
  /\ pc = "indexed"
  /\ headers = None
  /\ record \in SeqsOf(Vals, 0, MaxIdxLen)

indexed_context ==
  /\ pc = "indexed"
  /\ row_data' = create_indexed_context(record)
  /\ pc' = "built"
  /\ UNCHANGED <<args, processor, file_idx, reader, headers, row_index, record,
                 rendered, output, out, err, result, history>>

SpecIndexed == InitIndexed /\ [][indexed_context]_vars

\* ----------------------------------------------------------------- claims
Sources == 1..Len(files)
Compiles == template_from_str(template).ok

\* The records of file s that are data: all but the header record, which a
\* non-empty file has in header mode.
DataRecords(s) == IF ~no_header /\ nread[s] > 0 THEN nread[s] - 1 ELSE nread[s]

\* File s reached DONE: every record of it was read and its command succeeded.
Done(s) == status[s] = "done" /\ completed[s] = DataRecords(s)

\* The run is inside the loop body of process_reader.
InRow == pc \in {"context", "render", "trace", "spawn", "check"}

\* C1: when the template does not compile, the run fails in CsvProcessor::new
\* at the latest: no file is opened, no record read, no command run and no
\* trace line written.
C1_MalformedTemplateRunsNothing ==
  ~Compiles =>
    /\ pc \in {"main", "new", "exit"}
    /\ pc = "exit" => result = "Err"
    /\ \A s \in Sources : status[s] = "pending" /\ nread[s] = 0 /\ spawned[s] = 0
    /\ out = <<>>

C1_Witness ==
  /\ ~Compiles
  /\ Len(files) = MaxSources
  /\ pc = "exit"
  /\ err = <<"Failed to parse template", "syntax error">>

\* C2: with no file named the run ends in the configuration error, before
\* the template is compiled and whatever the template is; nothing is written.
C2_NoSourcesIsConfigError ==
  files = <<>> =>
    /\ pc \in {"main", "exit"}
    /\ ~processor.built
    /\ out = <<>>
    /\ pc = "exit" =>
         result = "Err" /\ err = <<"At least one CSV file must be provided">>

C2_Witness ==
  /\ files = <<>>
  /\ ~Compiles
  /\ pc = "exit"
  /\ result = "Err"

\* C3: a file is opened only after every file before it is DONE, and once a
\* file has failed the run has ended with every later file untouched.
C3_SourcesInOrder ==
  \A j \in Sources :
    /\ status[j] # "pending" => \A i \in 1..(j - 1) : Done(i)
    /\ status[j] = "pending" => nread[j] = 0 /\ spawned[j] = 0
    /\ status[j] = "failed" =>
         /\ pc = "exit"
         /\ ~ENABLED Next
         /\ \A k \in (j + 1)..Len(files) : status[k] = "pending"

C3_Witness ==
  /\ Len(files) >= 2
  /\ status[1] = "failed"
  /\ completed[1] >= 1
  /\ status[2] = "pending"
  /\ pc = "exit"

\* C4: in a file the commands run one at a time in record order: while row
\* k is worked on, exactly the k rows before it have run, all successfully;
\* a command that did not succeed is the last one of its file, and the first
\* failure ends the work on the file.
C4_RecordsInOrder ==
  /\ \A s \in Sources :
       /\ completed[s] <= spawned[s]
       /\ spawned[s] <= completed[s] + 1
       /\ spawned[s] > completed[s] =>
            status[s] = "failed" \/ (s = file_idx /\ pc = "check")
       /\ spawned[s] <= DataRecords(s)
       /\ status[s] = "failed" => pc = "exit" /\ ~ENABLED Next
  /\ InRow =>
       /\ file_idx \in Sources
       /\ status[file_idx] = "open"
       /\ row_index = completed[file_idx]
       /\ row_index = DataRecords(file_idx) - 1
  /\ pc = "records" => row_index = DataRecords(file_idx)

C4_Witness ==
  /\ \E s \in Sources : status[s] = "failed" /\ completed[s] = 1 /\ spawned[s] = 2
  /\ pc = "exit"

\* C5: the run returns Ok exactly when the arguments were valid and every
\* file is DONE; it returns Err exactly with an error to report; no command
\* is run twice.
C5_OkIffEverythingSucceeded ==
  /\ pc = "exit" =>
       /\ result \in {"Ok", "Err"}
       /\ result = "Ok" <=> (files # <<>> /\ Compiles /\ \A s \in Sources : Done(s))
       /\ result = "Err" <=> err # <<>>
  /\ pc # "exit" => result = "running" /\ err = <<>>
  /\ \A s \in Sources : spawned[s] <= DataRecords(s)

C5_Witness ==
  /\ pc = "exit"
  /\ result = "Ok"
  /\ Len(files) = 2
  /\ completed[1] >= 1
  /\ completed[2] >= 1

\* The context the code is to build for a record under the header mode.
ContextOf(hdr, r) ==
  IF hdr.some THEN create_named_context(hdr.rec, r) ELSE create_indexed_context(r)

\* C6 as stated: after a successful run every file has run as many commands
\* as it has records, less one in header mode.
C6_Original_RecordsMinusOne ==
  (pc = "exit" /\ result = "Ok") =>
    \A s \in Sources :
      completed[s] = IF no_header THEN nread[s] ELSE nread[s] - 1

\* C6 (amended): in header mode the first record of a file is the header and
\* is never a row; without it every record is a row.  The row worked on is
\* the record read last, and its command is rendered from that record.  After
\* a successful run a file has run one command per data record: its records,
\* less the header record when header mode found one.
C6_HeaderRecordIsNotARow ==
  /\ pc \in {"records", "context", "render", "trace", "spawn", "check"} =>
       /\ headers.some = ~no_header
       /\ (~no_header /\ ~at_eof) => nread[file_idx] >= 1
       /\ InRow => nread[file_idx] = row_index + 1 + (IF no_header THEN 0 ELSE 1)
       /\ pc \in {"render", "trace", "spawn", "check"} =>
            row_data = ContextOf(headers, record)
       /\ pc \in {"trace", "spawn", "check"} =>
            rendered = render(template_from_str(template).pieces, row_data).text
  /\ (pc = "exit" /\ result = "Ok") =>
       \A s \in Sources :
         completed[s] =
           IF no_header \/ nread[s] = 0 THEN nread[s] ELSE nread[s] - 1

C6_Witness ==
  /\ pc = "exit"
  /\ result = "Ok"
  /\ ~no_header
  /\ \E s \in Sources : nread[s] = 3 /\ completed[s] = 2
  /\ Len(out) >= 2
  /\ out[1].text = "Executing for row 0: echo a\n"
  /\ out[2].text = "Executing for row 1: echo b\n"

Range(f) == {f[i] : i \in DOMAIN f}

\* The field of row r at position i (from one), or "" when r is shorter.
FieldOrEmpty(r, i) == IF i <= Len(r) THEN r[i] ELSE ""

\* Position i is the last one of header h that carries its name.
IsLast(h, i) == \A j \in (i + 1)..Len(h) : h[j] # h[i]

\* C7 as stated: the named context of (H, R) has |H| keys, and every H[i]
\* maps to R[i], or to "" beyond the row.
C7_Original_OneKeyPerHeaderField ==
  pc = "built" =>
    LET h == headers.rec IN
      /\ Cardinality(DOMAIN row_data) = Len(h)
      /\ \A i \in 1..Len(h) :
           h[i] \in DOMAIN row_data /\ row_data[h[i]] = FieldOrEmpty(record, i)

\* C7 (amended): the named context of (H, R) has exactly one key per distinct
\* name of H and no other key; every H[i] whose name does not occur again
\* later in H maps to R[i], or to "" beyond the row; without repeated names
\* that is |H| keys.
C7_NamedContextKeys ==
  pc = "built" =>
    LET h == headers.rec IN
      /\ DOMAIN row_data = Range(h)
      /\ Cardinality(DOMAIN row_data) = Cardinality(Range(h))
      /\ Cardinality(Range(h)) = Len(h) => Cardinality(DOMAIN row_data) = Len(h)
      /\ \A i \in 1..Len(h) :
           IsLast(h, i) => row_data[h[i]] = FieldOrEmpty(record, i)

C7_Witness ==
  /\ pc = "built"
  /\ headers.rec = <<"a", "b", "a">>
  /\ record = <<"b", "a">>
  /\ DOMAIN row_data = {"a", "b"}
  /\ row_data["a"] = ""
  /\ row_data["b"] = "a"

\* C8: a name at several positions of the header is one key of the named
\* context, and its value is the field at the last of these positions, or ""
\* when that position is beyond the row.
C8_RepeatedHeaderLastWins ==
  pc = "built" =>
    LET h == headers.rec IN
      \A name \in Range(h) :
        LET at == {i \in 1..Len(h) : h[i] = name}
            last == CHOOSE i \in at : \A j \in at : j <= i
        IN Cardinality(at) >= 2 =>
             /\ name \in DOMAIN row_data
             /\ row_data[name] = (IF last <= Len(record) THEN record[last] ELSE "")

C8_Witness ==
  /\ pc = "built"
  /\ headers.rec = <<"a", "b", "a">>
  /\ record = <<"a", "a", "b">>
  /\ row_data["a"] = "b"

\* The decimal numerals of 0, 1, 2, ...
Numerals == <<"0", "1", "2", "3", "4", "5", "6", "7", "8", "9", "10", "11", "12",
              "13", "14", "15">>

\* C9: the indexed context of R has exactly the |R| keys "0" .. "|R|-1", and
\* the key of i maps to R[i].
C9_IndexedContextKeys ==
  pc = "built" =>
    /\ DOMAIN row_data = {Numerals[i] : i \in 1..Len(record)}
    /\ Cardinality(DOMAIN row_data) = Len(record)
    /\ \A i \in 1..Len(record) : row_data[Numerals[i]] = record[i]

C9_Witness ==
  /\ pc = "built"
  /\ Len(record) = 11
  /\ record[11] = "b"
  /\ record[2] = "a"
  /\ row_data["10"] = "b"
  /\ row_data["1"] = "a"

\* C10 as stated: a record whose length differs from the others of its file
\* never fails the file.
C10_LengthMismatchNeverFails ==
  \A s \in Sources :
    status[s] = "failed" =>
      err[Len(err)] # "CSV error: found record with unequal lengths"

\* The keys of `row` the template refers to.
ReferencedKeys ==
  LET pieces == template_from_str(template).pieces IN
    {pieces[i].path[2] : i \in {j \in DOMAIN pieces :
        pieces[j].kind = "expr" /\ Len(pieces[j].path) >= 2 /\ pieces[j].path[1] = "row"}}

\* C11 as stated: a row whose context lacks a key the template refers to is
\* never rendered, so no command of it is traced or run.
C11_MissingKeyFailsRender ==
  pc \in {"trace", "spawn", "check"} => ReferencedKeys \subseteq DOMAIN row_data

\* The positions of the trace lines of the primary output.
TracePositions == {i \in DOMAIN out : out[i].by = "trace"}

\* The run ended because sh could not be started for a command.
StartFailed == pc = "exit" /\ Len(err) >= 3 /\ err[3] = "Failed to execute command"

\* The trace line of the row at index i whose command is c, written out.
ExpectedTrace(i, c) == "Executing for row " \o Numerals[i + 1] \o ": " \o c \o "\n"

\* C12: every command that was started has exactly one trace line, written
\* before the command starts: there are as many trace lines as commands
\* started, plus the one of a command that is about to start or could not be
\* started.  While a command is started or its result looked at, the last
\* line written is its trace line, with the index of its row and the text
\* handed to sh.  A trace line stays when its command fails.  A line of
\* command output directly follows the trace line of its command, so it comes
\* before the next trace line.
C12_TraceLineBeforeEachCommand ==
  /\ Cardinality(TracePositions) =
       ReadFrom(spawned, 1) + (IF pc = "spawn" \/ StartFailed THEN 1 ELSE 0)
  /\ pc \in {"spawn", "check"} =>
       /\ out # <<>>
       /\ out[Len(out)].by = "trace"
       /\ out[Len(out)].text = ExpectedTrace(row_index, rendered)
  /\ \A i \in DOMAIN out :
       out[i].by = "command" => i > 1 /\ out[i - 1].by = "trace"
  /\ \A s \in Sources :
       (status[s] = "failed" /\ spawned[s] > completed[s]) =>
         out # <<>> /\ out[Len(out)].by = "trace"

C12_Witness ==
  /\ pc = "exit"
  /\ result = "Err"
  /\ \E s \in Sources : status[s] = "failed" /\ spawned[s] = 2 /\ completed[s] = 1
  /\ Len(out) = 3
  /\ out[1].text = "Executing for row 0: echo a\n"
  /\ out[2].by = "command"
  /\ out[3].text = "Executing for row 1: echo b\n"

\* C13 as stated: when the result of a command that exited with success is
\* looked at, the primary output gains the captured standard output exactly
\* as captured, nothing trimmed and nothing added, if its trimmed text is not
\* empty, and gains nothing otherwise; standard error is never written.
C13_OutputWrittenUnmodified ==
  [][(pc = "check" /\ success(output)) =>
       out' = IF trim(output.stdout) # <<>>
                THEN Append(out, [by |-> "command", text |-> Text(output.stdout)])
                ELSE out]_vars

\* File s failed in execute_command: line 80 put its context on the error.
ExecFailed(s) ==
  /\ status[s] = "failed"
  /\ Len(err) >= 2
  /\ err[2] = "Failed to execute command for row " \o Numerals[row_index + 1]

\* The message of line 136 for the captured output o, written out.
ExpectedFailure(o) ==
  "Command failed with status exit status: " \o Numerals[o.code + 1] \o ": " \o o.stderr

\* C14 as stated: whenever execute_command fails, because the command exited
\* with a failure status or because it could not be started, the error
\* carries the exit status and the captured standard error.
C14_Original_ErrorCarriesStatusAndStderr ==
  \A s \in Sources :
    ExecFailed(s) => ~success(output) /\ err[Len(err)] = ExpectedFailure(output)

\* C14 (amended): when the command exits with a failure status the error of
\* execute_command carries the exit status and the captured standard error;
\* when the command cannot be started there is neither, and the error carries
\* "Failed to execute command" and the cause of the operating system.  In
\* both cases the last line of the primary output is the trace line of the
\* row, so nothing of the failed command was written, and the run is over: no
\* further record is read, no further command run and no further file opened.
C14_FailedCommandStopsTheRun ==
  \A s \in Sources :
    ExecFailed(s) =>
      /\ pc = "exit" /\ result = "Err" /\ ~ENABLED Next
      /\ s = file_idx
      /\ \A t \in (s + 1)..Len(files) : status[t] = "pending" /\ nread[t] = 0
      /\ out # <<>>
      /\ out[Len(out)].by = "trace"
      /\ out[Len(out)].text = ExpectedTrace(row_index, rendered)
      /\ \/ /\ spawned[s] = completed[s] + 1
            /\ ~success(output)
            /\ Len(err) = 3
            /\ err[3] = ExpectedFailure(output)
         \/ /\ spawned[s] = completed[s]
            /\ output = NoOutput
            /\ Len(err) = 4
            /\ err[3] = "Failed to execute command"

C14_Witness ==
  /\ pc = "exit"
  /\ Len(files) = 2
  /\ ExecFailed(1)
  /\ completed[1] = 1
  /\ output.code = 1
  /\ output.stdout = <<" ", "x", "\n">>
  /\ err[3] = "Command failed with status exit status: 1: oops"
  /\ Len(out) = 3

\* The contexts lines 67, 77 and 80 put on an error, for the row numbered k.
ReadMessage(k) == "Failed to read row " \o k
RenderMessage(k) == "Failed to render template for row " \o k
ExecuteMessage(k) == "Failed to execute command for row " \o k

\* C15: a file that failed did so at its opening or at its header, before a
\* record of it was read, or at a record: then the error names, directly
\* below the file, the step that failed and the index of the record from
\* zero, and this index is the number of commands of the file that completed
\* before.  The record that failed to render or to execute is the data record
\* at that index.
C15_ErrorNamesRowIndex ==
  \A s \in Sources :
    status[s] = "failed" =>
      /\ Len(err) >= 2
      /\ \/ /\ err[2] = "Failed to open file: " \o files[s]
            /\ nread[s] = 0
         \/ /\ err[2] = "CSV parse error: invalid UTF-8"
            /\ nread[s] = 0
         \/ /\ err[2] = ReadMessage(Numerals[completed[s] + 1])
            /\ spawned[s] = completed[s]
            /\ DataRecords(s) \in {completed[s], completed[s] + 1}
         \/ /\ err[2] \in {RenderMessage(Numerals[completed[s] + 1]),
                          ExecuteMessage(Numerals[completed[s] + 1])}
            /\ DataRecords(s) = completed[s] + 1
      /\ nread[s] > 1 =>
           err[2] \in {ReadMessage(Numerals[completed[s] + 1]),
                       RenderMessage(Numerals[completed[s] + 1]),
                       ExecuteMessage(Numerals[completed[s] + 1])}

C15_Witness ==
  /\ pc = "exit"
  /\ Len(files) = 2
  /\ status[2] = "failed"
  /\ completed[1] = 1
  /\ completed[2] = 1
  /\ err[2] = "Failed to read row 1"

\* C16: an error that ends the run after the processor was built is the
\* failure of the file worked on, and its outermost context names the path of
\* exactly this file; the files before it are DONE and no other file failed.
\* A file that cannot be opened fails with an error that names its path
\* again, before a record of it is read or a command of it is run.
C16_ErrorNamesTheFile ==
  /\ \A s \in Sources :
       status[s] = "failed" =>
         /\ pc = "exit" /\ result = "Err"
         /\ s = file_idx
         /\ err[1] = "Failed to process file: " \o AllPaths[s]
         /\ \A t \in Sources \ {s} : err[1] # "Failed to process file: " \o AllPaths[t]
         /\ \A t \in Sources \ {s} : status[t] # "failed"
         /\ err[2] = "Failed to open file: " \o AllPaths[s] =>
              /\ nread[s] = 0
              /\ spawned[s] = 0
              /\ completed[s] = 0
              /\ Cardinality(TracePositions) = ReadFrom(spawned, 1)
              /\ Len(err) = 3
  /\ (result = "Err" /\ processor.built) =>
       \E s \in Sources : status[s] = "failed"

C16_Witness ==
  /\ pc = "exit"
  /\ Len(files) = 2
  /\ status[1] = "done"
  /\ completed[1] >= 1
  /\ status[2] = "failed"
  /\ nread[2] = 0
  /\ err = <<"Failed to process file: f2.csv", "Failed to open file: f2.csv",
             "No such file or directory">>

\* The step that ends the file worked on as DONE without an output, and
\* turns to the next file.
EndsDoneSilently ==
  /\ Next
  /\ status' = [status EXCEPT ![file_idx] = "done"]
  /\ out' = out
  /\ UNCHANGED <<spawned, completed, result, err>>
  /\ file_idx' = file_idx + 1
  /\ pc' = "files"

\* C17: a file without a record is accepted where its header is read and
\* where its first record is asked for: ending it as DONE, with the output
\* as it was and the next file in turn, is a step the reader can take, and
\* once the header mode found the input empty no step fails.  A file that is
\* DONE without a record ran no command and the run went past it; while no
\* record was read nothing is on the primary output.
C17_EmptySourceIsDone ==
  /\ (pc = "headers" /\ ~no_header) => ENABLED (Next /\ at_eof')
  /\ (pc = "records" /\ nread[file_idx] = 0 /\ (no_header \/ at_eof)) =>
       ENABLED EndsDoneSilently
  /\ (pc = "records" /\ at_eof) =>
       /\ nread[file_idx] = 0
       /\ ~ENABLED (Next /\ result' = "Err")
  /\ \A s \in Sources :
       (status[s] = "done" /\ nread[s] = 0) =>
         /\ spawned[s] = 0
         /\ completed[s] = 0
         /\ file_idx > s
         /\ pc = "exit" => file_idx = Len(files) + 1 \/ status[file_idx] = "failed"
  /\ (\A s \in Sources : nread[s] = 0) => out = <<>>

C17_Witness ==
  /\ pc = "exit"
  /\ result = "Ok"
  /\ ~no_header
  /\ Len(files) = 2
  /\ status[1] = "done"
  /\ nread[1] = 0
  /\ status[2] = "done"
  /\ completed[2] >= 1
  /\ Len(out) >= 1
  /\ out[1].text = "Executing for row 0: echo a\n"

\* The trace lines of the primary output, in the order written.
TraceLines == SelectSeq(out, LAMBDA l : l.by = "trace")

\* The number of trace lines due for file s: one per command started, and
\* the one of a command about to start or that could not be started.
Traced ==
  [s \in Sources |->
     spawned[s] + (IF s = file_idx /\ (pc = "spawn" \/ StartFailed) THEN 1 ELSE 0)]

\* The commands the templates render to.
RenderedCommands == {"echo " \o v : v \in Vals \cup {""}}

\* The trace lines of the row at index k, one per command.
TraceTexts == [k \in 0..MaxRecords |-> {ExpectedTrace(k, c) : c \in RenderedCommands}]

\* C18: the trace lines of a file carry the indices 0, 1, 2, ... in this
\* order, without a gap or a repeat, and start at 0 again in each file; the
\* index of the row worked on is the number of data records of the file read
\* before it, the header record not being one.
C18_RowIndexCountsDataRecords ==
  /\ LET lines == TraceLines
         due == Traced
         all == ReadFrom(due, 1)
     IN /\ Len(lines) = all
        /\ \A s \in Sources :
             LET before == all - ReadFrom(due, s)
             IN \A k \in 0..(due[s] - 1) : lines[before + k + 1].text \in TraceTexts[k]
  /\ InRow =>
       /\ row_index = DataRecords(file_idx) - 1
       /\ row_index = nread[file_idx] - (IF no_header THEN 1 ELSE 2)
  /\ pc \in {"trace", "spawn", "check"} => rendered \in RenderedCommands

C18_Witness ==
  /\ pc = "exit"
  /\ result = "Ok"
  /\ no_header
  /\ Len(files) = 2
  /\ completed[1] = 2
  /\ completed[2] = 1
  /\ Len(TraceLines) = 3
  /\ TraceLines[1].text = "Executing for row 0: echo a\n"
  /\ TraceLines[2].text = "Executing for row 1: echo b\n"
  /\ TraceLines[3].text = "Executing for row 0: echo a\n"

\* The processor CsvProcessor::new builds from the arguments.
BuiltProcessor == [built |-> TRUE, template_str |-> template, has_header |-> ~no_header]

\* C19: once built, the processor stays as CsvProcessor::new built it from
\* the arguments, and no step of a row changes it or the arguments.  The
\* context changes twice per row only: build_context sets it, from the header
\* of the file and the fields of the record, and the end of the iteration
\* drops it.  The command of a row is the template of the arguments rendered
\* with the context of the header of its file and of its own fields, whatever
\* was processed before.
C19_RowsShareNoState ==
  /\ [](processor.built => processor = BuiltProcessor)
  /\ [](pc \in {"trace", "spawn", "check"} =>
          rendered =
            render(template_from_str(template).pieces, ContextOf(headers, record)).text)
  /\ [][InRow => processor' = processor /\ UNCHANGED args]_vars
  /\ [][row_data' # row_data =>
          \/ /\ pc = "context" /\ pc' = "render"
             /\ row_data = EmptyMap
             /\ row_data' = ContextOf(headers, record)
          \/ /\ pc = "check" /\ pc' = "records"
             /\ row_data' = EmptyMap]_vars

C19_Witness ==
  /\ pc = "check"
  /\ file_idx = 1
  /\ completed[1] = 1
  /\ nread[1] = 3
  /\ ~no_header
  /\ processor = BuiltProcessor
  /\ headers = Some(<<"a">>)
  /\ record = <<"b">>
  /\ rendered = "echo b"
  /\ out[1].text = "Executing for row 0: echo a\n"
====
